---- MODULE Spec2Model ----
(***************************************************************************)
(* Cost-tracked chat REPL of src/src/chat.py: calculate_cost, CostTracker  *)
(* and ChatREPL.                                                           *)
(*                                                                         *)
(* Money is counted in integer units of 1e-8 dollar: a rate of r dollars   *)
(* per 1M tokens is 100*r units per token, so every rate of MODEL_PRICING  *)
(* is a whole number of units and calculate_cost is exact.  The rounding   *)
(* of Python floats is not modelled.                                       *)
(*                                                                         *)
(* Text is a sequence of one-character strings, so that str.lower() and    *)
(* str.strip() are computed and not assumed.                               *)
(***************************************************************************)
EXTENDS Integers, Sequences, FiniteSets, TLC

VARIABLES
    file,           \* the cost file on disk: [state, data]
    today,          \* the wall-clock date, as a day number
    alive,          \* a ChatREPL object exists
    config,         \* self.config
    session_id,     \* self.session_id
    session_cost,   \* self.session_cost
    message_count,  \* self.message_count
    running,        \* self.running
    costs,          \* self.cost_tracker.costs
    inLoop,         \* control is inside the while loop of start()
    calls,          \* history: the calls this session made to the completion service
    refused,        \* history: __init__ took the daily-budget branch
    rejected,       \* history: _check_budget has rejected a message of this session
    last,           \* what the last handler did and displayed
    trackers,       \* the CostTracker objects made outside a ChatREPL
    adds,           \* history: the add_session calls made on those objects
    answer,         \* the last call of calculate_cost or get_daily_cost made
                    \* by a caller, and what it returned
    startDay        \* history: the date on which __init__ ran (0 before)

vars == <<file, today, alive, config, session_id, session_cost,
          message_count, running, costs, inLoop, calls, refused, rejected, last,
          trackers, adds, answer, startDay>>

-----------------------------------------------------------------------------
(* Bounds of the model *)

MaxCalls == 2       \* calls one session makes to the completion service
MaxStops == 2       \* records one session adds to the ledger
MaxDay == 2         \* days 1..MaxDay
MaxTok == 2         \* token counts the tokenizer reports for a message
MaxAdds == 2        \* add_session calls made on the CostTracker objects

-----------------------------------------------------------------------------
(* Text *)

Upper == <<"A","B","C","D","E","F","G","H","I","J","K","L","M",
           "N","O","P","Q","R","S","T","U","V","W","X","Y","Z">>
LowerLetters == <<"a","b","c","d","e","f","g","h","i","j","k","l","m",
                  "n","o","p","q","r","s","t","u","v","w","x","y","z">>

LowerChar(c) ==
    IF \E i \in DOMAIN Upper : Upper[i] = c
    THEN LowerLetters[CHOOSE i \in DOMAIN Upper : Upper[i] = c]
    ELSE c

\* str.lower()
Lower(s) == [i \in 1..Len(s) |-> LowerChar(s[i])]

Whitespace == {" ", "\t"}

RECURSIVE LStrip(_)
LStrip(s) == IF s # <<>> /\ Head(s) \in Whitespace THEN LStrip(Tail(s)) ELSE s

RECURSIVE RStrip(_)
RStrip(s) ==
    IF s # <<>> /\ s[Len(s)] \in Whitespace
    THEN RStrip(SubSeq(s, 1, Len(s) - 1))
    ELSE s

\* str.strip()
Strip(s) == RStrip(LStrip(s))

\* The lines a user or a caller may hand to the session
ExitLines == { <<"e","x","i","t">>, <<"E","X","I","T">>, <<"E","x","i","t">> }
HelpLines == { <<"h","e","l","p">>, <<"H","e","l","p">> }
CostLines == { <<"/","c","o","s","t">>, <<"/","C","O","S","T">> }
BudgetLines == { <<"/","b","u","d","g","e","t">>, <<"/","B","u","d","g","e","t">> }
ChatLines == { <<"a">>, <<"h","i">>, <<"e","x","i","t","s">>,
               <<"e","x","i","t"," ">>, <<" ">> }
AllLines == ExitLines \cup HelpLines \cup CostLines \cup BudgetLines
                \cup ChatLines \cup { <<>> }

-----------------------------------------------------------------------------
(* Pricing and cost *)

\* MODEL_PRICING, input and output rates in cents per 1M tokens
MODEL_PRICING ==
    [m \in {"gpt-4o", "gpt-4o-mini", "gpt-5", "gpt-5-mini", "gpt-5-nano",
            "gpt-4.1", "gpt-4.1-mini", "gpt-4.1-nano", "o3-mini", "o4-mini",
            "gpt-4-turbo", "gpt-3.5-turbo"} |->
        CASE m = "gpt-4o"        -> [input |-> 250,  output |-> 1000]
          [] m = "gpt-4o-mini"   -> [input |-> 15,   output |-> 60]
          [] m = "gpt-5"         -> [input |-> 125,  output |-> 1000]
          [] m = "gpt-5-mini"    -> [input |-> 25,   output |-> 200]
          [] m = "gpt-5-nano"    -> [input |-> 5,    output |-> 40]
          [] m = "gpt-4.1"       -> [input |-> 200,  output |-> 800]
          [] m = "gpt-4.1-mini"  -> [input |-> 40,   output |-> 160]
          [] m = "gpt-4.1-nano"  -> [input |-> 10,   output |-> 40]
          [] m = "o3-mini"       -> [input |-> 110,  output |-> 440]
          [] m = "o4-mini"       -> [input |-> 110,  output |-> 440]
          [] m = "gpt-4-turbo"   -> [input |-> 1000, output |-> 3000]
          [] m = "gpt-3.5-turbo" -> [input |-> 50,   output |-> 150]]

KnownModel(model) == model \in DOMAIN MODEL_PRICING

\* calculate_cost with the result rounded to a whole 1e-6 dollar (100 units)
CalculateCostRounded(model, input_tokens, output_tokens) ==
    LET exact == input_tokens * MODEL_PRICING[model].input
                    + output_tokens * MODEL_PRICING[model].output
    IN  ((exact + 50) \div 100) * 100

\* calculate_cost, for a model that has a pricing entry
calculate_cost(model, input_tokens, output_tokens) ==
    input_tokens * MODEL_PRICING[model].input
        + output_tokens * MODEL_PRICING[model].output

\* calculate_cost with an unpriced model priced as gpt-3.5-turbo
CostCallFallsBack(model, input_tokens, output_tokens) ==
    [res |-> "ok",
     value |-> calculate_cost(IF KnownModel(model) THEN model ELSE "gpt-3.5-turbo",
                              input_tokens, output_tokens)]

\* calculate_cost, for any model identifier: ValueError is raised when the
\* model is not in MODEL_PRICING, and the cost is returned otherwise
CostCall(model, input_tokens, output_tokens) ==
    IF ~KnownModel(model)
    THEN [res |-> "raised", value |-> 0]
    ELSE [res |-> "ok",
          value |-> calculate_cost(model, input_tokens, output_tokens)]

\* count_tokens: the tokenizer is an external library.  It is deterministic and
\* gives 0 for the empty text; here a token is one character, and a text has
\* at most MaxTok tokens.
count_tokens(text) == IF Len(text) < MaxTok THEN Len(text) ELSE MaxTok

-----------------------------------------------------------------------------
(* CostTracker *)

\* The empty dict {}
EmptyCosts == [u \in {} |-> 0]

\* No cost file: there is no document
NoFile == [state |-> "absent", data |-> <<>>]

\* The members of JSON object f whose keys are Keys, as <<key, value>> pairs
RECURSIVE Members(_, _)
Members(f, Keys) ==
    IF Keys = {} THEN <<>>
    ELSE LET k == CHOOSE x \in Keys : TRUE
         IN  <<<<k, f[k]>>>> \o Members(f, Keys \ {k})

\* json.dump of the dict: the document is an object of users, each an object
\* of dates, each an aggregate
json_dump(c) ==
    Members([u \in DOMAIN c |-> Members(c[u], DOMAIN c[u])], DOMAIN c)

\* json.load of one object: a dict of its members, the last of two members
\* with the same key taken
ObjectOf(members) ==
    [k \in {members[i][1] : i \in DOMAIN members} |->
        members[CHOOSE i \in DOMAIN members :
                    /\ members[i][1] = k
                    /\ \A j \in DOMAIN members : members[j][1] = k => j <= i][2]]

\* json.load of the document
json_load(doc) ==
    LET users == ObjectOf(doc)
    IN  [u \in DOMAIN users |-> ObjectOf(users[u])]

\* CostTracker._load_costs, for a file that json.load accepts
_load_costs(f) == IF f.state = "ok" THEN json_load(f.data) ELSE EmptyCosts

\* json.load taking any file for an empty document
LoadNeverRaises(f) == FALSE

\* json.load raises on a file that exists and is not well-formed JSON
LoadRaises(f) == f.state = "malformed"

\* The outcomes of _save_costs: the file is written; open() fails and the
\* file is as it was; the write fails after open(..., 'w') truncated the file.
WriteOutcomes == {"ok", "open_error", "write_error"}

\* CostTracker._save_costs
_save_costs(c, f, w) ==
    CASE w = "ok"          -> [state |-> "ok", data |-> json_dump(c)]
      [] w = "open_error"  -> f
      [] w = "write_error" -> [state |-> "malformed", data |-> <<>>]

NewAggregate == [sessions |-> <<>>, total_cost |-> 0, total_messages |-> 0]

\* add_session with the day's totals set to the new record's, not added to
AddToCostsSetsTotals(c, sid, user_id, cost, messages, date) ==
    LET c1 == [u \in DOMAIN c \cup {user_id} |->
                  IF u \in DOMAIN c THEN c[u] ELSE [d \in {} |-> NewAggregate]]
        byDate == c1[user_id]
        d1 == [d \in DOMAIN byDate \cup {date} |->
                  IF d \in DOMAIN byDate THEN byDate[d] ELSE NewAggregate]
        agg == [sessions |-> Append(d1[date].sessions,
                                    [session_id |-> sid, cost |-> cost,
                                     messages |-> messages, timestamp |-> date]),
                total_cost |-> cost,
                total_messages |-> messages]
    IN  [c1 EXCEPT ![user_id] = [d1 EXCEPT ![date] = agg]]

\* add_session with the cost added to the totals of every day of the user
AddToCostsEveryDay(c, sid, user_id, cost, messages, date) ==
    LET c1 == [u \in DOMAIN c \cup {user_id} |->
                  IF u \in DOMAIN c THEN c[u] ELSE [d \in {} |-> NewAggregate]]
        byDate == c1[user_id]
        d1 == [d \in DOMAIN byDate \cup {date} |->
                  IF d \in DOMAIN byDate THEN byDate[d] ELSE NewAggregate]
        d2 == [d \in DOMAIN d1 |->
                  [sessions |-> IF d = date
                                THEN Append(d1[d].sessions,
                                            [session_id |-> sid, cost |-> cost,
                                             messages |-> messages,
                                             timestamp |-> date])
                                ELSE d1[d].sessions,
                   total_cost |-> d1[d].total_cost + cost,
                   total_messages |-> d1[d].total_messages + messages]]
    IN  [c1 EXCEPT ![user_id] = d2]

\* add_session with the record put at the head of the day's list
AddToCostsPrepends(c, sid, user_id, cost, messages, date) ==
    LET c1 == [u \in DOMAIN c \cup {user_id} |->
                  IF u \in DOMAIN c THEN c[u] ELSE [d \in {} |-> NewAggregate]]
        byDate == c1[user_id]
        d1 == [d \in DOMAIN byDate \cup {date} |->
                  IF d \in DOMAIN byDate THEN byDate[d] ELSE NewAggregate]
        agg == [sessions |-> <<[session_id |-> sid, cost |-> cost,
                                messages |-> messages, timestamp |-> date]>>
                                \o d1[date].sessions,
                total_cost |-> d1[date].total_cost + cost,
                total_messages |-> d1[date].total_messages + messages]
    IN  [c1 EXCEPT ![user_id] = [d1 EXCEPT ![date] = agg]]

\* CostTracker.add_session, the in-memory part: the dict after the call
AddToCosts(c, sid, user_id, cost, messages, date) ==
    LET c1 == [u \in DOMAIN c \cup {user_id} |->
                  IF u \in DOMAIN c THEN c[u] ELSE [d \in {} |-> NewAggregate]]
        byDate == c1[user_id]
        d1 == [d \in DOMAIN byDate \cup {date} |->
                  IF d \in DOMAIN byDate THEN byDate[d] ELSE NewAggregate]
        agg == [sessions |-> Append(d1[date].sessions,
                                    [session_id |-> sid, cost |-> cost,
                                     messages |-> messages, timestamp |-> date]),
                total_cost |-> d1[date].total_cost + cost,
                total_messages |-> d1[date].total_messages + messages]
    IN  [c1 EXCEPT ![user_id] = [d1 EXCEPT ![date] = agg]]

\* add_session with the file read again before the record is added
AddSessionReloads(c, f, sid, user_id, cost, messages, date, w) ==
    LET c0 == IF f.state = "ok" THEN _load_costs(f) ELSE c
        c2 == AddToCosts(c0, sid, user_id, cost, messages, date)
    IN  [costs |-> c2, file |-> _save_costs(c2, f, w), raised |-> w # "ok"]

\* add_session with the save made before the record is added
AddSessionSavesFirst(c, f, sid, user_id, cost, messages, date, w) ==
    LET c2 == AddToCosts(c, sid, user_id, cost, messages, date)
    IN  [costs |-> c2, file |-> _save_costs(c, f, w), raised |-> w # "ok"]

\* CostTracker.add_session: the dict and the file after the call, and whether
\* _save_costs raised
add_session(c, f, sid, user_id, cost, messages, date, w) ==
    LET c2 == AddToCosts(c, sid, user_id, cost, messages, date)
    IN  [costs |-> c2, file |-> _save_costs(c2, f, w), raised |-> w # "ok"]

\* CostTracker.get_daily_cost
get_daily_cost(c, user_id, date) ==
    IF user_id \in DOMAIN c /\ date \in DOMAIN c[user_id]
    THEN c[user_id][date].total_cost
    ELSE 0


\* get_daily_cost with an entry made for a user or a date the dict lacks
DailyCostCallCreatesEntry(c, user_id, date) ==
    LET c1 == [u \in DOMAIN c \cup {user_id} |->
                  IF u \in DOMAIN c THEN c[u] ELSE [d \in {} |-> NewAggregate]]
        byDate == c1[user_id]
        d1 == [d \in DOMAIN byDate \cup {date} |->
                  IF d \in DOMAIN byDate THEN byDate[d] ELSE NewAggregate]
    IN  [value |-> d1[date].total_cost,
         costs |-> [c1 EXCEPT ![user_id] = d1]]

\* CostTracker.get_daily_cost: the value returned and self.costs afterwards
DailyCostCall(c, user_id, date) ==
    [value |-> get_daily_cost(c, user_id, date), costs |-> c]

\* The records the dict holds for user u on day d
SessionsOf(c, u, d) ==
    IF u \in DOMAIN c /\ d \in DOMAIN c[u] THEN c[u][d].sessions ELSE <<>>

\* The records of session sid in the dict
RECURSIVE CountOf(_, _)
CountOf(sessions, sid) ==
    IF sessions = <<>> THEN 0
    ELSE (IF Head(sessions).session_id = sid THEN 1 ELSE 0)
            + CountOf(Tail(sessions), sid)

RECURSIVE SumCounts(_, _, _)
SumCounts(c, Keys, sid) ==
    IF Keys = {} THEN 0
    ELSE LET k == CHOOSE x \in Keys : TRUE
         IN  CountOf(c[k[1]][k[2]].sessions, sid) + SumCounts(c, Keys \ {k}, sid)

\* The (user, date) keys of the dict
KeysOf(c) == {k \in (DOMAIN c) \X (1..MaxDay) : k[2] \in DOMAIN c[k[1]]}

RecordsOf(c, sid) == SumCounts(c, KeysOf(c), sid)

-----------------------------------------------------------------------------
(* ChatConfig: the values a session may be configured with.  max_tokens is   *)
(* 1, so that the estimate of a message of n tokens is 50*n + 150 units.     *)
(* budget_warning_threshold is in hundredths: the default 0.75 is 75.        *)

CfgCapped == [model |-> "gpt-3.5-turbo", max_tokens |-> 1,
              session_budget |-> 400, daily_budget |-> 300,
              budget_warning_threshold |-> 75,
              user_id |-> "default"]
\* ChatConfig's defaults (both budgets 0: unlimited)
CfgDefault == [model |-> "gpt-3.5-turbo", max_tokens |-> 1,
               session_budget |-> 0, daily_budget |-> 0,
               budget_warning_threshold |-> 75,
               user_id |-> "default"]
CfgUnknownModel == [model |-> "my-model", max_tokens |-> 1,
                    session_budget |-> 400, daily_budget |-> 0,
                    budget_warning_threshold |-> 75,
                    user_id |-> "alice"]
CfgNegative == [model |-> "gpt-3.5-turbo", max_tokens |-> 1,
                session_budget |-> -100, daily_budget |-> 300,
                budget_warning_threshold |-> 75,
                user_id |-> "alice"]

\* A cap of 500 units with the default threshold, with a threshold above 0.9
\* and with a threshold of 0
CfgWarn75 == [model |-> "gpt-3.5-turbo", max_tokens |-> 1,
              session_budget |-> 500, daily_budget |-> 0,
              budget_warning_threshold |-> 75,
              user_id |-> "default"]
CfgWarn95 == [model |-> "gpt-3.5-turbo", max_tokens |-> 1,
              session_budget |-> 500, daily_budget |-> 0,
              budget_warning_threshold |-> 95,
              user_id |-> "default"]
CfgWarn0 == [model |-> "gpt-3.5-turbo", max_tokens |-> 1,
             session_budget |-> 500, daily_budget |-> 0,
             budget_warning_threshold |-> 0,
             user_id |-> "default"]

\* A cap of 300 units: one message of one token fits, two do not
CfgTight == [model |-> "gpt-3.5-turbo", max_tokens |-> 1,
             session_budget |-> 300, daily_budget |-> 0,
             budget_warning_threshold |-> 75,
             user_id |-> "default"]

Configs == {CfgCapped, CfgDefault, CfgUnknownModel, CfgNegative}

\* What the completion service may answer: an error, or a response with usage
ServiceError == [ok |-> FALSE, prompt_tokens |-> 0, completion_tokens |-> 0]
Usage(p, c) == [ok |-> TRUE, prompt_tokens |-> p, completion_tokens |-> c]
ServiceOutcomes ==
    {ServiceError, Usage(0, 0), Usage(1, 1), Usage(2, 1), Usage(2, 2)}

\* A cost file left by an earlier session of user "default" on day 1
PriorFile(cost, messages) ==
    [state |-> "ok",
     data |-> json_dump(AddToCosts(EmptyCosts, 0, "default", cost, messages, 1))]

TruncatedFile == [state |-> "malformed", data |-> <<>>]

-----------------------------------------------------------------------------
(* ChatREPL: the handlers, as functions of the session's state *)

EXIT == <<"e","x","i","t">>
HELP == <<"h","e","l","p">>
COST == <<"/","c","o","s","t">>
BUDGET == <<"/","b","u","d","g","e","t">>

\* The command compared without lower()
IsCommandExact(message, command) == message = command

\* message.lower() == command
IsCommand(message, command) == Lower(message) = command

\* The session's state as the handlers read and write it
Self == [session_cost |-> session_cost, message_count |-> message_count,
         running |-> running, costs |-> costs, file |-> file, calls |-> calls,
         rejected |-> rejected, last |-> last]

\* What a handler displayed: the handler, its input, its outcome, the
\* estimate it printed and the budget warning it printed
Report(op, text, res, est) ==
    [op |-> op, text |-> text, res |-> res, est |-> est, warn |-> "none"]

\* _check_budget with the session left running on a rejection
CheckBudgetKeepsRunning(session_budget, cost, estimated_cost, run) ==
    IF session_budget <= 0
    THEN [admit |-> TRUE, running |-> run]
    ELSE IF cost + estimated_cost > session_budget
         THEN [admit |-> FALSE, running |-> run]
         ELSE [admit |-> TRUE, running |-> run]

\* _check_budget with a projected total equal to the cap rejected
CheckBudgetRejectsAtCap(session_budget, cost, estimated_cost, run) ==
    IF session_budget <= 0
    THEN [admit |-> TRUE, running |-> run]
    ELSE IF cost + estimated_cost >= session_budget
         THEN [admit |-> FALSE, running |-> FALSE]
         ELSE [admit |-> TRUE, running |-> run]

\* _check_budget with only a negative cap taken as no cap
CheckBudgetZeroIsCap(session_budget, cost, estimated_cost, run) ==
    IF session_budget < 0
    THEN [admit |-> TRUE, running |-> run]
    ELSE IF cost + estimated_cost > session_budget
         THEN [admit |-> FALSE, running |-> FALSE]
         ELSE [admit |-> TRUE, running |-> run]

\* _check_budget with the cost so far, and not the projected total, compared
\* with the cap
CheckBudgetIgnoresEstimate(session_budget, cost, estimated_cost, run) ==
    IF session_budget <= 0
    THEN [admit |-> TRUE, running |-> run]
    ELSE IF cost > session_budget
         THEN [admit |-> FALSE, running |-> FALSE]
         ELSE [admit |-> TRUE, running |-> run]

\* ChatREPL._check_budget: the value returned and self.running afterwards
_check_budget(session_budget, cost, estimated_cost, run) ==
    IF session_budget <= 0
    THEN [admit |-> TRUE, running |-> run]
    ELSE IF cost + estimated_cost > session_budget
         THEN [admit |-> FALSE, running |-> FALSE]
         ELSE [admit |-> TRUE, running |-> run]

\* _check_budget_warnings with the configured threshold tested first
CheckWarningsThresholdFirst(session_budget, threshold, cost) ==
    IF session_budget <= 0 THEN "none"
    ELSE IF 100 * cost >= threshold * session_budget THEN "warning"
    ELSE IF 10 * cost >= 9 * session_budget THEN "critical"
    ELSE "none"

\* ChatREPL._check_budget_warnings: what it prints.  usage_percent >= 0.9 is
\* 10 * cost >= 9 * budget, and usage_percent >= threshold/100 is
\* 100 * cost >= threshold * budget.
_check_budget_warnings(session_budget, threshold, cost) ==
    IF session_budget <= 0 THEN "none"
    ELSE IF 10 * cost >= 9 * session_budget THEN "critical"
    ELSE IF 100 * cost >= threshold * session_budget THEN "warning"
    ELSE "none"

\* stop with the record put under the date on which the session started
StopOnStartDay(s, cfg, sid, date, w) ==
    LET r == add_session(s.costs, s.file, sid, cfg.user_id,
                         s.session_cost, s.message_count, startDay, w)
    IN  [s EXCEPT !.costs = r.costs, !.file = r.file,
                  !.last = Report("stop", <<>>, IF r.raised THEN "raised" ELSE "ok", 0)]

\* ChatREPL.stop
stop(s, cfg, sid, date, w) ==
    LET r == add_session(s.costs, s.file, sid, cfg.user_id,
                         s.session_cost, s.message_count, date, w)
    IN  [s EXCEPT !.costs = r.costs, !.file = r.file,
                  !.last = Report("stop", <<>>, IF r.raised THEN "raised" ELSE "ok", 0)]

\* The exit command with running = False set before stop() is called
HandleExitMarksFirst(s, cfg, sid, date, message, w) ==
    LET t == stop([s EXCEPT !.running = FALSE], cfg, sid, date, w)
    IN  IF t.last.res = "raised"
        THEN [t EXCEPT !.last = Report("exit", message, "raised", 0)]
        ELSE [t EXCEPT !.last = Report("exit", message, "goodbye", 0)]

\* process_message, the exit command: stop(), then running = False
HandleExit(s, cfg, sid, date, message, w) ==
    LET t == stop(s, cfg, sid, date, w)
    IN  IF t.last.res = "raised"
        THEN [t EXCEPT !.last = Report("exit", message, "raised", 0)]
        ELSE [t EXCEPT !.running = FALSE,
                       !.last = Report("exit", message, "goodbye", 0)]

\* process_message, the help command
HandleHelp(s, message) == [s EXCEPT !.last = Report("help", message, "shown", 0)]

\* process_message, the /cost command: _show_cost_report divides by
\* message_count when session_cost > 0
HandleCost(s, message) ==
    [s EXCEPT !.last = Report("cost", message,
                              IF s.session_cost > 0 /\ s.message_count = 0
                              THEN "raised" ELSE "shown", 0)]

\* process_message, the /budget command
HandleBudget(s, message) == [s EXCEPT !.last = Report("budget", message, "shown", 0)]

\* The service answered, and a critical warning ends the session
OnResponseStopsOnCritical(s, cfg, message, est, svc) ==
    LET total == s.session_cost + calculate_cost(cfg.model, svc.prompt_tokens,
                                                 svc.completion_tokens)
        warn == _check_budget_warnings(cfg.session_budget,
                                       cfg.budget_warning_threshold, total)
    IN  [s EXCEPT !.session_cost = total,
                  !.message_count = @ + 1,
                  !.running = IF warn = "critical" THEN FALSE ELSE @,
                  !.calls = Append(@, svc),
                  !.last = [Report("chat", message, "reply", est) EXCEPT
                               !.warn = warn]]

\* The service answered, and the message is not counted
OnResponseForgetsCount(s, cfg, message, est, svc) ==
    LET total == s.session_cost + calculate_cost(cfg.model, svc.prompt_tokens,
                                                 svc.completion_tokens)
    IN  [s EXCEPT !.session_cost = total,
                  !.calls = Append(@, svc),
                  !.last = [Report("chat", message, "reply", est) EXCEPT
                               !.warn = _check_budget_warnings(
                                            cfg.session_budget,
                                            cfg.budget_warning_threshold, total)]]

\* The service answered, and the pre-flight estimate is added to the total
OnResponseAddsEstimate(s, cfg, message, est, svc) ==
    LET total == s.session_cost + est
    IN  [s EXCEPT !.session_cost = total,
                  !.message_count = @ + 1,
                  !.calls = Append(@, svc),
                  !.last = [Report("chat", message, "reply", est) EXCEPT
                               !.warn = _check_budget_warnings(
                                            cfg.session_budget,
                                            cfg.budget_warning_threshold, total)]]

\* process_message, the service answered: lines 534-576
OnResponse(s, cfg, message, est, svc) ==
    LET total == s.session_cost + calculate_cost(cfg.model, svc.prompt_tokens,
                                                 svc.completion_tokens)
    IN  [s EXCEPT !.session_cost = total,
                  !.message_count = @ + 1,
                  !.calls = Append(@, svc),
                  !.last = [Report("chat", message, "reply", est) EXCEPT
                               !.warn = _check_budget_warnings(
                                            cfg.session_budget,
                                            cfg.budget_warning_threshold, total)]]

\* The service raised, and the message is counted all the same
OnErrorCountsMessage(s, message, est, svc) ==
    [s EXCEPT !.message_count = @ + 1,
              !.calls = Append(@, svc),
              !.last = Report("chat", message, "error", est)]

\* process_message, the service raised: lines 578-588
OnError(s, message, est, svc) ==
    [s EXCEPT !.calls = Append(@, svc),
              !.last = Report("chat", message, "error", est)]

\* A chat message, with the user's daily cost and the session's cost so far
\* checked against daily_budget before the service is called
HandleChatChecksDaily(s, cfg, message, n, svc) ==
    IF ~KnownModel(cfg.model)
    THEN [s EXCEPT !.last = Report("chat", message, "raised", 0)]
    ELSE LET est == calculate_cost(cfg.model, n, cfg.max_tokens)
             chk == _check_budget(cfg.session_budget, s.session_cost, est, s.running)
             overDay == /\ cfg.daily_budget > 0
                        /\ get_daily_cost(s.costs, cfg.user_id, today)
                                + s.session_cost + est > cfg.daily_budget
         IN  IF ~chk.admit \/ overDay
             THEN [s EXCEPT !.running = FALSE, !.rejected = TRUE,
                            !.last = Report("chat", message, "rejected", est)]
             ELSE IF svc.ok
                  THEN OnResponse([s EXCEPT !.running = chk.running],
                                  cfg, message, est, svc)
                  ELSE OnError([s EXCEPT !.running = chk.running],
                               message, est, svc)

\* process_message, a chat message: lines 511-588.  n is the tokenizer's count
\* of the message and svc the answer of the service, if it is called.
HandleChat(s, cfg, message, n, svc) ==
    IF ~KnownModel(cfg.model)
    THEN [s EXCEPT !.last = Report("chat", message, "raised", 0)]
    ELSE LET est == calculate_cost(cfg.model, n, cfg.max_tokens)
             chk == _check_budget(cfg.session_budget, s.session_cost, est, s.running)
         IN  IF ~chk.admit
             THEN [s EXCEPT !.running = chk.running, !.rejected = TRUE,
                            !.last = Report("chat", message, "rejected", est)]
             ELSE IF svc.ok
                  THEN OnResponse([s EXCEPT !.running = chk.running],
                                  cfg, message, est, svc)
                  ELSE OnError([s EXCEPT !.running = chk.running],
                               message, est, svc)

\* The session's state becomes r
Becomes(r) ==
    /\ session_cost' = r.session_cost
    /\ message_count' = r.message_count
    /\ running' = r.running
    /\ costs' = r.costs
    /\ file' = r.file
    /\ calls' = r.calls
    /\ rejected' = r.rejected
    /\ last' = r.last

\* ChatREPL.process_message.  Svc and W are the answers the service and the
\* file system may give.
process_message(message, Svc, W) ==
    IF IsCommand(message, EXIT)
    THEN /\ RecordsOf(costs, session_id) < MaxStops
         /\ \E w \in W :
                Becomes(HandleExit(Self, config, session_id, today, message, w))
    ELSE IF IsCommand(message, HELP) THEN Becomes(HandleHelp(Self, message))
    ELSE IF IsCommand(message, COST) THEN Becomes(HandleCost(Self, message))
    ELSE IF IsCommand(message, BUDGET) THEN Becomes(HandleBudget(Self, message))
    ELSE \E svc \in Svc :
            LET r == HandleChat(Self, config, message,
                                count_tokens(message), svc)
            IN  /\ Len(r.calls) <= MaxCalls
                /\ Becomes(r)

-----------------------------------------------------------------------------
(* The operations *)

\* The CostTracker objects a caller may hold on the one cost file
Instances == {1, 2}

\* No object yet.  state is "none", "alive" or, when __init__ raised,
\* "failed"; initial is the dict __init__ loaded and born the number of
\* add_session calls made on the file before it (both are history).
NoTracker == [state |-> "none", costs |-> EmptyCosts,
              initial |-> EmptyCosts, born |-> 0]

\* No call yet
NoAnswer == [fn |-> "none", args |-> <<>>, res |-> "none", value |-> 0]

\* Before ChatREPL is constructed: the cost file is one of Files
InitWith(Files) ==
    /\ file \in Files
    /\ today = 1
    /\ alive = FALSE
    /\ config = CfgDefault
    /\ session_id = 0
    /\ session_cost = 0
    /\ message_count = 0
    /\ running = FALSE
    /\ costs = EmptyCosts
    /\ inLoop = FALSE
    /\ calls = <<>>
    /\ refused = FALSE
    /\ rejected = FALSE
    /\ last = Report("none", <<>>, "none", 0)
    /\ trackers = [i \in Instances |-> NoTracker]
    /\ adds = <<>>
    /\ answer = NoAnswer
    /\ startDay = 0

\* ChatREPL.__init__ with a configuration of Cfgs
Construct(Cfgs) ==
    /\ UNCHANGED <<trackers, adds, answer>>
    /\ startDay' = today
    /\ last.op = "none"
    /\ \E cfg \in Cfgs :
        /\ config' = cfg
        /\ session_cost' = 0
        /\ message_count' = 0
        /\ running' = FALSE
        /\ inLoop' = FALSE
        /\ calls' = <<>>
        /\ rejected' = FALSE
        /\ IF LoadRaises(file)
           THEN /\ alive' = FALSE
                /\ session_id' = 0
                /\ costs' = EmptyCosts
                /\ refused' = FALSE
                /\ last' = Report("init", <<>>, "raised", 0)
           ELSE /\ alive' = TRUE
                /\ session_id' = 1
                /\ costs' = _load_costs(file)
                /\ refused' = (cfg.daily_budget > 0
                               /\ get_daily_cost(costs', cfg.user_id, today)
                                    >= cfg.daily_budget)
                /\ last' = Report("init", <<>>,
                                  IF refused' THEN "daily_exceeded" ELSE "ok", 0)
    /\ UNCHANGED <<file, today>>

\* ChatREPL.start, up to the first test of the while loop
Start ==
    /\ UNCHANGED <<trackers, adds, answer, startDay>>
    /\ alive /\ ~inLoop
    /\ running' = TRUE
    /\ inLoop' = TRUE
    /\ last' = Report("start", <<>>, "ok", 0)
    /\ UNCHANGED <<file, today, alive, config, session_id, session_cost,
                   message_count, costs, calls, refused, rejected>>

\* One pass of the while loop of start(): a line is read, stripped and, unless
\* empty, handed to process_message; then the loop tests self.running.  An
\* exception of process_message other than KeyboardInterrupt and EOFError
\* leaves start().
LoopInput(Lines, Svc, W) ==
    /\ UNCHANGED <<trackers, adds, answer, startDay>>
    /\ alive /\ inLoop
    /\ \E line \in Lines :
        IF Strip(line) = <<>>
        THEN /\ last' = Report("blank", <<>>, "ok", 0)
             /\ UNCHANGED <<file, session_cost, message_count, running, costs,
                            calls, rejected, inLoop>>
        ELSE /\ process_message(Strip(line), Svc, W)
             /\ inLoop' = (last'.res # "raised" /\ running')
    /\ UNCHANGED <<today, alive, config, session_id, refused>>

\* input() raises EOFError: the loop breaks
LoopEOF ==
    /\ UNCHANGED <<trackers, adds, answer, startDay>>
    /\ alive /\ inLoop
    /\ inLoop' = FALSE
    /\ last' = Report("eof", <<>>, "goodbye", 0)
    /\ UNCHANGED <<file, today, alive, config, session_id, session_cost,
                   message_count, running, costs, calls, refused, rejected>>

\* input() raises KeyboardInterrupt: the loop goes on
LoopInterrupt ==
    /\ UNCHANGED <<trackers, adds, answer, startDay>>
    /\ alive /\ inLoop
    /\ last' = Report("interrupt", <<>>, "ok", 0)
    /\ UNCHANGED <<file, today, alive, config, session_id, session_cost,
                   message_count, running, costs, calls, refused, rejected, inLoop>>

\* process_message called on the object, outside start()
DirectMessage(Lines, Svc, W) ==
    /\ UNCHANGED <<trackers, adds, answer, startDay>>
    /\ alive /\ ~inLoop
    /\ \E message \in Lines : process_message(message, Svc, W)
    /\ UNCHANGED <<today, alive, config, session_id, refused, inLoop>>

\* stop() called on the object, outside start()
DirectStop(W) ==
    /\ UNCHANGED <<trackers, adds, answer, startDay>>
    /\ alive /\ ~inLoop
    /\ RecordsOf(costs, session_id) < MaxStops
    /\ \E w \in W : Becomes(stop(Self, config, session_id, today, w))
    /\ UNCHANGED <<today, alive, config, session_id, refused, inLoop>>

\* Midnight passes
NextDay ==
    /\ UNCHANGED <<trackers, adds, answer, startDay>>
    /\ today < MaxDay
    /\ today' = today + 1
    /\ UNCHANGED <<file, alive, config, session_id, session_cost,
                   message_count, running, costs, inLoop, calls, refused,
                   rejected, last>>

\* What a caller may hand to add_session: user_id, cost and messages
AddArgs == { [user_id |-> "default", cost |-> 200, messages |-> 1],
             [user_id |-> "default", cost |-> 250, messages |-> 2],
             [user_id |-> "alice", cost |-> 200, messages |-> 1] }

\* The fields of the session that no CostTracker operation touches
sessionVars == <<alive, config, session_id, session_cost, message_count,
                 running, costs, inLoop, calls, refused, rejected, last,
                 startDay>>

\* CostTracker.__init__ for object i: the file is loaded, and json.load may
\* raise.  The objects are numbered in the order they are made.
TrackerNew(i) ==
    /\ trackers[i].state = "none"
    /\ \A j \in Instances : j < i => trackers[j].state # "none"
    /\ trackers' = [trackers EXCEPT ![i] =
            IF LoadRaises(file)
            THEN [NoTracker EXCEPT !.state = "failed", !.born = Len(adds)]
            ELSE [state |-> "alive", costs |-> _load_costs(file),
                  initial |-> _load_costs(file), born |-> Len(adds)]]
    /\ UNCHANGED <<file, today, adds, answer, sessionVars>>

\* add_session on object i.  The session_id is unique, as the caller's is
\* (a uuid); w is what the file system does at the save.
TrackerAdd(i, W) ==
    /\ trackers[i].state = "alive"
    /\ Len(adds) < MaxAdds
    /\ \E a \in AddArgs, w \in W :
         LET sid == Len(adds) + 1
             r == add_session(trackers[i].costs, file, sid, a.user_id,
                              a.cost, a.messages, today, w)
         IN  /\ trackers' = [trackers EXCEPT ![i].costs = r.costs]
             /\ file' = r.file
             /\ adds' = Append(adds, [inst |-> i, session_id |-> sid,
                                      user_id |-> a.user_id, cost |-> a.cost,
                                      messages |-> a.messages, date |-> today,
                                      raised |-> r.raised])
    /\ UNCHANGED <<today, answer, sessionVars>>

\* The users a caller may ask get_daily_cost about
QueryUsers == {"default", "alice", "nobody"}

\* get_daily_cost called on object i, with a date or with the date left out
\* (then it is today's)
TrackerQuery(i) ==
    /\ trackers[i].state = "alive"
    /\ \E u \in QueryUsers, d \in 1..MaxDay, omitted \in BOOLEAN :
         LET date == IF omitted THEN today ELSE d
             r == DailyCostCall(trackers[i].costs, u, date)
         IN  /\ (omitted => d = 1)
             /\ answer' = [fn |-> "get_daily_cost",
                           args |-> <<i, u, date, omitted>>,
                           res |-> "ok", value |-> r.value]
             /\ trackers' = [trackers EXCEPT ![i].costs = r.costs]
    /\ UNCHANGED <<file, today, adds, sessionVars>>

\* The model identifiers and token counts a caller may hand to calculate_cost
UnpricedModels == {"my-model", "gpt-4", "GPT-4o", ""}
TokenCounts == (0..MaxTok) \cup {100000}

\* calculate_cost called by a caller
CalculateCost ==
    /\ \E model \in DOMAIN MODEL_PRICING \cup UnpricedModels,
          i \in TokenCounts, o \in TokenCounts :
            LET r == CostCall(model, i, o)
            IN  answer' = [fn |-> "calculate_cost", args |-> <<model, i, o>>,
                           res |-> r.res, value |-> r.value]
    /\ UNCHANGED <<file, today, trackers, adds, sessionVars>>

-----------------------------------------------------------------------------
(* Spec: one session and the completion service.  The cost file does not   *)
(* exist at first and every write of it succeeds.                           *)

SpecLines == { <<"e","x","i","t">>, <<"a">>, <<"h","i">>,
               <<"/","C","O","S","T">>, <<" ">> }

Init == InitWith({NoFile})

Next ==
    \/ Construct(Configs)
    \/ Start
    \/ LoopInput(SpecLines, ServiceOutcomes, {"ok"})
    \/ LoopEOF
    \/ LoopInterrupt
    \/ DirectMessage(SpecLines, ServiceOutcomes, {"ok"})

Spec == Init /\ [][Next]_vars

-----------------------------------------------------------------------------
(* Properties of Spec *)

\* The service calls of the session that were answered
RECURSIVE Answered(_)
Answered(cs) ==
    IF cs = <<>> THEN <<>>
    ELSE IF Head(cs).ok THEN <<Head(cs)>> \o Answered(Tail(cs))
         ELSE Answered(Tail(cs))

\* The cost of the usage the service reported, summed over its answers
RECURSIVE BilledBy(_, _)
BilledBy(model, cs) ==
    IF cs = <<>> THEN 0
    ELSE Head(cs).prompt_tokens * MODEL_PRICING[model].input
            + Head(cs).completion_tokens * MODEL_PRICING[model].output
            + BilledBy(model, Tail(cs))

\* The step is one of handler op (midnight is the only step that leaves the
\* report of the last handler as it was)
Handled(op) == last'.op = op /\ today' = today

\* C1: a chat message that the pre-flight budget check rejects makes no call
\* to the completion service, leaves session_cost and message_count as they
\* were, and leaves running false.
C1_RejectSpendsNothing ==
    [][ (Handled("chat") /\ last'.res = "rejected")
            => /\ calls' = calls
               /\ session_cost' = session_cost
               /\ message_count' = message_count
               /\ running' = FALSE ]_vars

\* C1: a message was rejected after the session had spent on an earlier one
C1_Witness ==
    /\ last.op = "chat" /\ last.res = "rejected"
    /\ session_cost > 0 /\ Len(calls) = 1 /\ message_count = 1
    /\ ~running /\ ~inLoop

\* C3 as claimed: once a pre-flight check has rejected a message, no later
\* step of the session calls the service or changes session_cost or
\* message_count.
C3_NothingAfterReject ==
    [][ rejected => /\ calls' = calls
                    /\ session_cost' = session_cost
                    /\ message_count' = message_count ]_vars

\* C4: a chat message that reaches _check_budget is rejected exactly when
\* session_budget > 0 and session_cost + estimate > session_budget; otherwise
\* it is admitted and running is as it was.
C4_RejectsExactlyOverCap ==
    [][ (Handled("chat") /\ last'.res \in {"rejected", "reply", "error"})
            => /\ (last'.res = "rejected")
                    <=> (config.session_budget > 0
                         /\ session_cost + last'.est > config.session_budget)
               /\ (last'.res # "rejected" => running' = running) ]_vars

\* C4: a message whose projected total is exactly the cap was admitted (the
\* service was called and raised, so session_cost is the cost before the call)
C4_Witness ==
    /\ last.op = "chat" /\ last.res = "error"
    /\ config.session_budget > 0
    /\ session_cost > 0
    /\ session_cost + last.est = config.session_budget
    /\ running

\* C5: when the completion service raises, session_cost, message_count and
\* running are as before the call and the loop of start(), if it was reading
\* input, still is.
C5_ServiceErrorIsRecovered ==
    [][ (Handled("chat") /\ last'.res = "error")
            => /\ calls' = Append(calls, ServiceError)
               /\ session_cost' = session_cost
               /\ message_count' = message_count
               /\ running' = running
               /\ inLoop' = inLoop ]_vars

\* C5: after a call that raised, the loop went on and a later message was
\* answered
C5_Witness ==
    /\ inLoop /\ running
    /\ Len(calls) = 2 /\ ~calls[1].ok /\ calls[2].ok
    /\ last.op = "chat" /\ last.res = "reply"
    /\ message_count = 1

\* C6: message_count is the number of calls the service answered, and
\* session_cost is the sum over them of the cost of the usage the service
\* reported.
C6_TotalsAreTheAnsweredCalls ==
    alive => /\ message_count = Len(Answered(calls))
             /\ session_cost = IF KnownModel(config.model)
                               THEN BilledBy(config.model, Answered(calls))
                               ELSE 0

\* C6: two messages were answered, with different usage
C6_Witness ==
    /\ Len(calls) = 2 /\ calls[1].ok /\ calls[2].ok /\ calls[1] # calls[2]
    /\ message_count = 2
    /\ session_cost > last.est

\* C18 as claimed: the estimate printed for a chat message is
\* calculate_cost(model, count_tokens(message), max_tokens), and when the
\* message is admitted and answered (the service keeping the completion
\* within max_tokens) the cost added to session_cost is not more than it.
C18_EstimateCoversActual ==
    [][ (Handled("chat") /\ last'.res = "reply"
            /\ calls'[Len(calls')].completion_tokens <= config.max_tokens)
            => /\ last'.est = calculate_cost(config.model,
                                             count_tokens(last'.text),
                                             config.max_tokens)
               /\ session_cost' - session_cost <= last'.est ]_vars

\* C29: in every state reached from a fresh session, session_cost > 0 implies
\* message_count >= 1, so the division of the /cost report by message_count
\* never fails: the report is always shown.
C29_CostImpliesAMessage ==
    alive => /\ session_cost > 0 => message_count >= 1
             /\ last.op = "cost" => last.res = "shown"

\* C29: the /cost report was shown, with its average, after two answered
\* messages
C29_Witness ==
    /\ last.op = "cost" /\ last.res = "shown"
    /\ session_cost > 0 /\ message_count = 2

\* C29: the /cost report was shown, without an average, in a session whose
\* one answered message cost nothing
C29_WitnessNoCost ==
    /\ last.op = "cost" /\ last.res = "shown"
    /\ session_cost = 0 /\ message_count = 1

-----------------------------------------------------------------------------
(* SpecLedger: one session and the cost file.  The file may have been left  *)
(* by an earlier session, writes of it may fail, and midnight may pass.     *)

LedgerFiles == {NoFile, TruncatedFile, PriorFile(300, 2), PriorFile(200, 1)}
LedgerConfigs == {CfgCapped, CfgDefault, CfgNegative}
LedgerLines == { <<"e","x","i","t">>, <<"a">> }
LedgerService == {ServiceError, Usage(1, 1)}

InitLedger == InitWith(LedgerFiles)

NextLedger ==
    \/ Construct(LedgerConfigs)
    \/ Start
    \/ LoopInput(LedgerLines, LedgerService, WriteOutcomes)
    \/ LoopEOF
    \/ DirectMessage(LedgerLines, LedgerService, WriteOutcomes)
    \/ DirectStop(WriteOutcomes)
    \/ NextDay

SpecLedger == InitLedger /\ [][NextLedger]_vars

-----------------------------------------------------------------------------
(* Properties of SpecLedger *)

\* The record stop() hands to the ledger now
FinalRecord(date) ==
    [session_id |-> session_id, cost |-> session_cost,
     messages |-> message_count, timestamp |-> date]

\* The cost file holds the session's record with its current totals
Flushed ==
    /\ file.state = "ok"
    /\ LET stored == json_load(file.data)
       IN  \E k \in KeysOf(stored) :
              /\ k[1] = config.user_id
              /\ \E i \in DOMAIN stored[k[1]][k[2]].sessions :
                    stored[k[1]][k[2]].sessions[i] = FinalRecord(k[2])

\* C2 as claimed: a session constructed with daily_budget > 0 and the user's
\* daily cost already at or over it has running false after construction, and
\* no chat message given to it reaches the completion service.
C2_RefusedSessionNeverServes ==
    refused => /\ (last.op = "init" => ~running)
               /\ calls = <<>>

\* C7 as claimed: whenever the loop of start() ends by the exit command, a
\* budget rejection or end of input, the cost file holds the session's record
\* with its final session_cost and message_count.
C7_LoopEndFlushes ==
    [][ (inLoop /\ ~inLoop' /\ last'.op \in {"exit", "chat", "eof"}
            /\ last'.res # "raised") => Flushed' ]_vars

\* C8 as claimed: the ledger holds at most one record with the session's id,
\* in memory and in the cost file.
C8_OneRecordPerSession ==
    alive => /\ RecordsOf(costs, session_id) <= 1
             /\ file.state = "ok" => RecordsOf(json_load(file.data), session_id) <= 1

\* C9: the exit command appends to the (user_id, today) aggregate one record
\* with the session's id, session_cost and message_count, and the user's daily
\* cost for today grows by exactly session_cost; running is set to false only
\* after that: when the command ends normally the cost file holds what the
\* ledger holds and running is false, and when the save raises the record is
\* in the ledger and running is as it was.
C9_ExitSavesThenStops ==
    [][ Handled("exit")
            => LET u == config.user_id
                   before == IF u \in DOMAIN costs /\ today \in DOMAIN costs[u]
                             THEN costs[u][today].sessions ELSE <<>>
               IN  /\ u \in DOMAIN costs' /\ today \in DOMAIN costs'[u]
                   /\ costs'[u][today].sessions
                        = Append(before, FinalRecord(today))
                   /\ get_daily_cost(costs', u, today)
                        = get_daily_cost(costs, u, today) + session_cost
                   /\ session_cost' = session_cost
                   /\ message_count' = message_count
                   /\ last'.res = "goodbye"
                        => /\ ~running'
                           /\ file'.state = "ok"
                           /\ json_load(file'.data) = costs'
                   /\ last'.res # "goodbye" => running' = running ]_vars

\* C9: a session that had spent left by the exit command, on a day for which
\* the ledger already held an earlier session of the user
C9_Witness ==
    /\ last.op = "exit" /\ last.res = "goodbye"
    /\ ~running
    /\ session_cost > 0
    /\ get_daily_cost(costs, config.user_id, today) > session_cost
    /\ Flushed

\* C9: the save raised in a running loop: the record is in the ledger and the
\* session is still marked running
C9_WitnessSaveRaised ==
    /\ last.op = "exit" /\ last.res = "raised"
    /\ running
    /\ RecordsOf(costs, session_id) = 1

\* C21: a cap of 0 is no cap.  With session_budget = 0 every chat message
\* that reaches the budget check is admitted, whatever session_cost and the
\* estimate are, and no warning is printed; with daily_budget = 0 __init__
\* never takes the daily-budget branch, whatever the ledger's daily cost.
C21_ZeroIsUnlimited ==
    [][ /\ (Handled("chat") /\ config.session_budget = 0
                /\ KnownModel(config.model))
            => /\ last'.res \in {"reply", "error"}
               /\ Len(calls') = Len(calls) + 1
               /\ last'.warn = "none"
               /\ running' = running
        /\ (last.op = "none" /\ last'.op = "init" /\ alive'
                /\ config'.daily_budget = 0)
            => /\ ~refused'
               /\ last'.res = "ok" ]_vars

\* C21: a session with both caps 0 was constructed on a ledger that held a
\* daily cost for its user, and has had two messages answered
C21_Witness ==
    /\ config.session_budget = 0 /\ config.daily_budget = 0
    /\ alive /\ ~refused
    /\ get_daily_cost(costs, config.user_id, today) >= 300
    /\ message_count = 2 /\ session_cost = 400
    /\ last.op = "chat" /\ last.res = "reply" /\ last.warn = "none"

\* C27: the session's record goes to the date at the time of the call: when
\* the exit command or stop() runs, the record and its cost are added to the
\* aggregate of (user, today), and the aggregate of every other date, the
\* date the session started on included, is as it was.
C27_CostGoesToTheDayOfExit ==
    [][ (Handled("exit") \/ Handled("stop"))
            => LET u == config.user_id
               IN  /\ SessionsOf(costs', u, today)
                        = Append(SessionsOf(costs, u, today), FinalRecord(today))
                   /\ get_daily_cost(costs', u, today)
                        = get_daily_cost(costs, u, today) + session_cost
                   /\ \A d \in (1..MaxDay) \ {today} :
                        /\ SessionsOf(costs', u, d) = SessionsOf(costs, u, d)
                        /\ get_daily_cost(costs', u, d) = get_daily_cost(costs, u, d)
                        /\ (d \in DOMAIN costs'[u]) <=>
                                (u \in DOMAIN costs /\ d \in DOMAIN costs[u]) ]_vars

\* C27: a session that started on day 1 and spent left by the exit command on
\* day 2: its record is under day 2, and day 1 holds only what the ledger
\* held before
C27_Witness ==
    /\ startDay = 1 /\ today = 2
    /\ last.op = "exit" /\ last.res = "goodbye"
    /\ session_cost > 0
    /\ SessionsOf(costs, config.user_id, 2) = <<FinalRecord(2)>>
    /\ get_daily_cost(costs, config.user_id, 2) = session_cost
    /\ get_daily_cost(costs, config.user_id, 1) = 200
    /\ Flushed

\* The daily caps two sessions may differ in
DailyBudgets == {0, 1000}

\* The session's configuration with another daily cap
Twin(cfg, db) == [cfg EXCEPT !.daily_budget = db]

\* The handler's outcome r is what the step did to the session: its totals,
\* its running flag, the calls it made, its ledger, the cost file and what it
\* displayed
SameOutcome(r) == r = Self'

\* C30: the daily cap is read only by __init__.  __init__ leaves the session
\* with the same totals whatever daily_budget is, and every chat message and
\* exit command does to the session exactly what it would do were
\* daily_budget any other value, the service and the file system answering
\* alike: the same admission or rejection, the same service call, the same
\* totals and the same record.  So two sessions that differ only in
\* daily_budget go through the same states on the same input.
C30_DailyCapOnlyAtConstruction ==
    [][ /\ (last.op = "none" /\ last'.op = "init" /\ alive')
            => /\ session_cost' = 0 /\ message_count' = 0
               /\ calls' = <<>> /\ ~running' /\ ~rejected'
               /\ costs' = _load_costs(file)
        /\ Handled("chat")
            => \A db \in DailyBudgets :
                 \E svc \in LedgerService :
                    SameOutcome(HandleChat(Self, Twin(config, db), last'.text,
                                           count_tokens(last'.text), svc))
        /\ Handled("exit")
            => \A db \in DailyBudgets :
                 \E w \in WriteOutcomes :
                    SameOutcome(HandleExit(Self, Twin(config, db), session_id,
                                           today, last'.text, w)) ]_vars

\* C30: a session that started under its daily cap has left by the exit
\* command, and the user's daily cost in the ledger and in the cost file is
\* above daily_budget
C30_Witness ==
    /\ config.daily_budget > 0 /\ ~refused
    /\ startDay = today
    /\ last.op = "exit" /\ last.res = "goodbye"
    /\ message_count >= 1
    /\ get_daily_cost(costs, config.user_id, today) > config.daily_budget
    /\ get_daily_cost(costs, config.user_id, today) - session_cost
            < config.daily_budget
    /\ Flushed

-----------------------------------------------------------------------------
(* SpecTracker: two CostTracker objects on one cost file, and a ChatREPL    *)
(* that may be constructed on it.  The operations never overlap; writes of  *)
(* the file may fail, and midnight may pass.                                *)

TrackerFiles == {NoFile, TruncatedFile, PriorFile(200, 1)}

InitTracker == InitWith(TrackerFiles)

NextTracker ==
    \/ Construct({CfgDefault})
    \/ \E i \in Instances : TrackerNew(i)
    \/ \E i \in Instances : TrackerAdd(i, WriteOutcomes)
    \/ NextDay

SpecTracker == InitTracker /\ [][NextTracker]_vars

-----------------------------------------------------------------------------
(* Properties of SpecTracker *)

RECURSIVE SumCost(_)
SumCost(sessions) ==
    IF sessions = <<>> THEN 0
    ELSE Head(sessions).cost + SumCost(Tail(sessions))

RECURSIVE SumMessages(_)
SumMessages(sessions) ==
    IF sessions = <<>> THEN 0
    ELSE Head(sessions).messages + SumMessages(Tail(sessions))

\* The add_session calls made on object i for user u on day d
CallsFor(i, u, d) ==
    Cardinality({n \in DOMAIN adds : /\ adds[n].inst = i
                                     /\ adds[n].user_id = u
                                     /\ adds[n].date = d})

Users == {a.user_id : a \in AddArgs}

\* C11: in a CostTracker that started from an empty ledger, every (user,
\* date) aggregate has total_cost equal to the sum of the costs of its
\* records and total_messages equal to the sum of their message counts, and
\* it holds as many records as add_session was called for that user and date.
C11_AggregatesAreSums ==
    \A i \in Instances :
        (trackers[i].state = "alive" /\ trackers[i].initial = EmptyCosts)
            => LET c == trackers[i].costs
               IN  /\ \A k \in KeysOf(c) :
                        LET agg == c[k[1]][k[2]]
                        IN  /\ agg.total_cost = SumCost(agg.sessions)
                            /\ agg.total_messages = SumMessages(agg.sessions)
                   /\ \A u \in Users, d \in 1..MaxDay :
                        Len(SessionsOf(c, u, d)) = CallsFor(i, u, d)

\* C11: two calls of different cost for the same user and day, on an object
\* that started empty
C11_Witness ==
    \E i \in Instances :
        /\ trackers[i].state = "alive" /\ trackers[i].initial = EmptyCosts
        /\ \E d \in 1..MaxDay :
              /\ CallsFor(i, "default", d) = 2
              /\ get_daily_cost(trackers[i].costs, "default", d) = 450
              /\ trackers[i].costs["default"][d].total_messages = 3

\* The record add_session call n appended
RecordOf(n) ==
    [session_id |-> adds[n].session_id, cost |-> adds[n].cost,
     messages |-> adds[n].messages, timestamp |-> adds[n].date]

\* The dict holds the record of add_session call n
Holds(c, n) ==
    \E j \in DOMAIN SessionsOf(c, adds[n].user_id, adds[n].date) :
        SessionsOf(c, adds[n].user_id, adds[n].date)[j] = RecordOf(n)

\* No save has raised
AllSaved == \A n \in DOMAIN adds : ~adds[n].raised

\* C12 as claimed: when the add_session calls of the CostTracker objects on
\* one cost file are made one at a time and every save succeeds, the file
\* holds the record of every call, whichever object made it.
C12_SerializedAddsLoseNothing ==
    (adds # <<>> /\ AllSaved)
        => /\ file.state = "ok"
           /\ \A n \in DOMAIN adds : Holds(json_load(file.data), n)

\* Both objects loaded the file before add_session was called on either
BothLoadedFirst ==
    \A i \in Instances : trackers[i].state = "alive" /\ trackers[i].born = 0

\* C13: when both objects loaded the cost file before either wrote it, then
\* after a save that succeeded the file holds exactly the dict of the object
\* that saved, and no record that was added through the other object.
C13_LastWriterWins ==
    (BothLoadedFirst /\ adds # <<>> /\ ~adds[Len(adds)].raised)
        => LET writer == adds[Len(adds)].inst
           IN  /\ file.state = "ok"
               /\ json_load(file.data) = trackers[writer].costs
               /\ \A n \in DOMAIN adds :
                     adds[n].inst # writer => ~Holds(json_load(file.data), n)

\* C13: each object has added a record and saved it, and the record of the
\* first to save is not in the file
C13_Witness ==
    /\ BothLoadedFirst
    /\ Len(adds) = 2 /\ AllSaved
    /\ adds[1].inst # adds[2].inst
    /\ file.state = "ok"
    /\ ~Holds(json_load(file.data), 1)
    /\ Holds(json_load(file.data), 2)
    /\ Holds(trackers[adds[1].inst].costs, 1)

\* C14: after an add_session whose save succeeded, the cost file loads to
\* the dict of the object that saved, so a CostTracker made from the file
\* gives the same get_daily_cost for every user and date, and an object
\* made since then holds that dict.
C14_SavedLedgerLoadsBack ==
    (adds # <<>> /\ ~adds[Len(adds)].raised)
        => LET saved == trackers[adds[Len(adds)].inst].costs
           IN  /\ ~LoadRaises(file)
               /\ _load_costs(file) = saved
               /\ \A u \in Users \cup {"nobody"}, d \in 1..MaxDay :
                     get_daily_cost(_load_costs(file), u, d)
                        = get_daily_cost(saved, u, d)
               /\ \A i \in Instances :
                     (trackers[i].state # "none" /\ trackers[i].born = Len(adds))
                        => /\ trackers[i].state = "alive"
                           /\ trackers[i].costs = saved

\* C14: an object made after two saves of another gives the daily cost the
\* two records add up to
C14_Witness ==
    \E i, j \in Instances :
        /\ Len(adds) = 2 /\ AllSaved
        /\ adds[1].inst = i /\ adds[2].inst = i
        /\ trackers[j].state = "alive" /\ trackers[j].born = 2
        /\ get_daily_cost(trackers[j].costs, "default", today) = 450
        /\ get_daily_cost(trackers[i].costs, "default", today) = 450

\* C15 as claimed: an add_session whose save raises leaves the dict of the
\* object as it was before the call.
C15_FailedAddLeavesLedger ==
    [][ (Len(adds') = Len(adds) + 1 /\ adds'[Len(adds')].raised)
            => trackers' = trackers ]_vars

\* C16: when the cost file exists and is malformed, CostTracker() raises and
\* so does ChatREPL(): no object is made, none holds an empty dict it could
\* save over the file, and the file is as it was.
C16_MalformedFileStopsConstruction ==
    [][ file.state = "malformed"
            => /\ \A i \in Instances :
                    trackers'[i].state # trackers[i].state
                        => /\ trackers'[i].state = "failed"
                           /\ file' = file
               /\ (last.op = "none" /\ last'.op = "init")
                        => /\ ~alive' /\ last'.res = "raised"
                           /\ file' = file ]_vars

\* C16: a save that failed half way left the file malformed, and CostTracker()
\* and ChatREPL() then raised and left it so
C16_Witness ==
    /\ file.state = "malformed"
    /\ adds # <<>> /\ adds[Len(adds)].raised
    /\ \E i \in Instances :
          trackers[i].state = "failed" /\ trackers[i].born = Len(adds)
    /\ last.op = "init" /\ last.res = "raised" /\ ~alive

-----------------------------------------------------------------------------
(* SpecRoute: one session and every line of AllLines, typed at the prompt   *)
(* or handed to process_message.                                            *)

RouteConfigs == {CfgCapped, CfgUnknownModel}
RouteService == {ServiceError, Usage(1, 1)}

NextRoute ==
    \/ Construct(RouteConfigs)
    \/ Start
    \/ LoopInput(AllLines, RouteService, {"ok"})
    \/ LoopEOF
    \/ LoopInterrupt
    \/ DirectMessage(AllLines, RouteService, {"ok"})

SpecRoute == Init /\ [][NextRoute]_vars

CommandLines == ExitLines \cup HelpLines \cup CostLines \cup BudgetLines

\* C10: exit, help, /cost and /budget are recognised in any letter case, and
\* none of them calls the completion service or changes session_cost or
\* message_count; any other non-empty message is handled as a chat message,
\* which calls the service once if it is admitted.
C10_CommandsRouteAndCostNothing ==
    [][ (last'.op \in {"exit", "help", "cost", "budget", "chat"}
            /\ today' = today)
            => LET t == last'.text
               IN  /\ t \in ExitLines => last'.op = "exit"
                   /\ t \in HelpLines => last'.op = "help"
                   /\ t \in CostLines => last'.op = "cost"
                   /\ t \in BudgetLines => last'.op = "budget"
                   /\ (t \notin CommandLines /\ t # <<>>) => last'.op = "chat"
                   /\ last'.op # "chat"
                        => /\ calls' = calls
                           /\ session_cost' = session_cost
                           /\ message_count' = message_count
                   /\ (last'.op = "chat" /\ last'.res \in {"reply", "error"})
                        => Len(calls') = Len(calls) + 1 ]_vars

\* C10: /COST in capitals was handled as the cost command, in a session that
\* had spent
C10_Witness ==
    /\ last.op = "cost" /\ last.text = <<"/","C","O","S","T">>
    /\ last.res = "shown"
    /\ message_count = 1 /\ session_cost > 0 /\ Len(calls) = 1

-----------------------------------------------------------------------------
(* SpecWarn: one session under a cap of 500 units, with the warning         *)
(* threshold at 0.75, above 0.9 and at 0, or with no cap.                   *)

WarnConfigs == {CfgWarn75, CfgWarn95, CfgWarn0, CfgDefault}
WarnLines == { <<"a">>, <<"h","i">> }
WarnService == {Usage(0, 0), Usage(1, 1), Usage(2, 1), Usage(2, 2)}

NextWarn ==
    \/ Construct(WarnConfigs)
    \/ Start
    \/ LoopInput(WarnLines, WarnService, {"ok"})
    \/ DirectMessage(WarnLines, WarnService, {"ok"})

SpecWarn == Init /\ [][NextWarn]_vars

\* C19: after an answered message _check_budget_warnings prints nothing when
\* session_budget <= 0; otherwise it prints CRITICAL exactly when
\* session_cost / session_budget >= 0.9, WARNING exactly when that usage is
\* at least budget_warning_threshold and below 0.9, and nothing otherwise; so
\* with a threshold above 0.9 it never prints WARNING.
C19_WarningLevels ==
    [][ (Handled("chat") /\ last'.res = "reply")
            => LET b == config.session_budget
                   t == config.budget_warning_threshold
                   c == session_cost'
                   w == last'.warn
               IN  /\ w \in {"none", "warning", "critical"}
                   /\ b <= 0 => w = "none"
                   /\ b > 0 => /\ (w = "critical") <=> (10 * c >= 9 * b)
                               /\ (w = "warning") <=> /\ 100 * c >= t * b
                                                      /\ 10 * c < 9 * b
                   /\ t > 90 => w # "warning" ]_vars

\* C19: CRITICAL was printed with the usage at exactly 0.9, after a message
\* that took it there from below
C19_Witness ==
    /\ last.op = "chat" /\ last.res = "reply" /\ last.warn = "critical"
    /\ config = CfgWarn75
    /\ 10 * session_cost = 9 * config.session_budget
    /\ Len(calls) = 2

\* C19: WARNING was printed, the usage between the threshold and 0.9
C19_WitnessWarning ==
    /\ last.op = "chat" /\ last.res = "reply" /\ last.warn = "warning"
    /\ config = CfgWarn75
    /\ session_cost = 400

\* C20: the warning check changes nothing: an answered message leaves running
\* as it was and adds one to message_count and the cost of the reported usage
\* to session_cost, whatever warning it prints; and after a handler that
\* printed WARNING or CRITICAL the next chat message is rejected exactly when
\* session_budget > 0 and session_cost + estimate > session_budget.
C20_WarningsOnlyAdvise ==
    [][ Handled("chat")
            => /\ last'.res = "reply"
                    => /\ running' = running
                       /\ message_count' = message_count + 1
                       /\ session_cost' = session_cost
                            + calculate_cost(config.model,
                                  calls'[Len(calls')].prompt_tokens,
                                  calls'[Len(calls')].completion_tokens)
               /\ (last.warn # "none" /\ last'.res \in {"rejected", "reply", "error"})
                    => ((last'.res = "rejected")
                            <=> (config.session_budget > 0
                                 /\ session_cost + last'.est
                                        > config.session_budget)) ]_vars

\* C20: a message was admitted and answered right after a message for which
\* WARNING was printed, in a loop that is still running
C20_Witness ==
    /\ config = CfgWarn0
    /\ Len(calls) = 2 /\ calls[1].ok /\ calls[2].ok
    /\ _check_budget_warnings(config.session_budget,
                              config.budget_warning_threshold,
                              BilledBy(config.model, <<calls[1]>>)) = "warning"
    /\ last.op = "chat" /\ last.res = "reply"
    /\ message_count = 2
    /\ running /\ inLoop

\* The step is an add_session call
Added == Len(adds') = Len(adds) + 1

\* C25: add_session for user u on date d changes only the aggregate of
\* (u, d): every other aggregate of the object, of another user or of
\* another date of u, is as it was and none appears or disappears, so
\* get_daily_cost of any other user is as before; the other object's dict is
\* untouched.
C25_OnlyTheKeyedAggregateChanges ==
    [][ Added
            => LET a == adds'[Len(adds')]
                   c == trackers[a.inst].costs
                   c2 == trackers'[a.inst].costs
               IN  /\ \A k \in KeysOf(c) \cup KeysOf(c2) :
                        k # <<a.user_id, a.date>>
                            => /\ k \in KeysOf(c) /\ k \in KeysOf(c2)
                               /\ c2[k[1]][k[2]] = c[k[1]][k[2]]
                   /\ \A u \in QueryUsers, d \in 1..MaxDay :
                        <<u, d>> # <<a.user_id, a.date>>
                            => get_daily_cost(c2, u, d) = get_daily_cost(c, u, d)
                   /\ get_daily_cost(c2, a.user_id, a.date)
                        = get_daily_cost(c, a.user_id, a.date) + a.cost
                   /\ \A j \in Instances \ {a.inst} :
                        trackers'[j] = trackers[j] ]_vars

\* C25: a record was added for alice to a dict that held one of default,
\* whose daily cost is still that record's
C25_Witness ==
    /\ Len(adds) = 2
    /\ adds[1].inst = adds[2].inst
    /\ adds[1].user_id = "default" /\ adds[2].user_id = "alice"
    /\ trackers[adds[1].inst].initial = EmptyCosts
    /\ get_daily_cost(trackers[adds[1].inst].costs, "default", adds[1].date)
            = adds[1].cost
    /\ get_daily_cost(trackers[adds[1].inst].costs, "alice", adds[2].date) = 200

\* C25: two records of default were added on different days, and the total of
\* the first day is still the first record's cost
C25_WitnessOtherDay ==
    /\ Len(adds) = 2
    /\ adds[1].inst = adds[2].inst
    /\ adds[1].user_id = "default" /\ adds[2].user_id = "default"
    /\ adds[1].date # adds[2].date
    /\ trackers[adds[1].inst].initial = EmptyCosts
    /\ get_daily_cost(trackers[adds[1].inst].costs, "default", adds[1].date)
            = adds[1].cost

\* C26: add_session puts exactly one record, the one it was given, at the end
\* of the list of (user, today), and changes no record of any list: every
\* list before the call is a prefix of the list after it.
C26_RecordsAreAppendOnly ==
    [][ Added
            => LET a == adds'[Len(adds')]
                   c == trackers[a.inst].costs
                   c2 == trackers'[a.inst].costs
               IN  /\ a.date = today
                   /\ SessionsOf(c2, a.user_id, today)
                        = Append(SessionsOf(c, a.user_id, today),
                                 [session_id |-> a.session_id, cost |-> a.cost,
                                  messages |-> a.messages, timestamp |-> today])
                   /\ \A u \in QueryUsers, d \in 1..MaxDay :
                        LET before == SessionsOf(c, u, d)
                            after == SessionsOf(c2, u, d)
                        IN  /\ Len(before) <= Len(after)
                            /\ SubSeq(after, 1, Len(before)) = before
                            /\ <<u, d>> # <<a.user_id, today>> => after = before ]_vars

\* C26: the list of one user and day holds two records of different cost, in
\* the order they were added
C26_Witness ==
    \E i \in Instances :
        /\ trackers[i].initial = EmptyCosts
        /\ Len(adds) = 2 /\ adds[1].inst = i /\ adds[2].inst = i
        /\ adds[1].cost # adds[2].cost
        /\ SessionsOf(trackers[i].costs, "default", today)
                = <<RecordOf(1), RecordOf(2)>>

-----------------------------------------------------------------------------
(* SpecQuery: one CostTracker object, its records added and its daily costs *)
(* asked for.                                                               *)

QueryFiles == {NoFile, PriorFile(200, 1)}

InitQuery == InitWith(QueryFiles)

NextQuery ==
    \/ TrackerNew(1)
    \/ TrackerAdd(1, {"ok"})
    \/ TrackerQuery(1)
    \/ NextDay

SpecQuery == InitQuery /\ [][NextQuery]_vars

\* C24: get_daily_cost returns 0 when the dict has no aggregate for the user
\* and date and the aggregate's total_cost otherwise (the date being today's
\* when it is left out), and the call changes neither the dict, which gets
\* no entry for an absent user or date, nor the cost file.
C24_DailyCostReadsOnly ==
    [][ (answer' # answer /\ answer'.fn = "get_daily_cost")
            => LET i == answer'.args[1]
                   u == answer'.args[2]
                   d == answer'.args[3]
                   c == trackers[i].costs
               IN  /\ (answer'.args[4] => d = today)
                   /\ answer'.value
                        = IF u \in DOMAIN c /\ d \in DOMAIN c[u]
                          THEN c[u][d].total_cost ELSE 0
                   /\ trackers' = trackers
                   /\ file' = file
                   /\ adds' = adds ]_vars

\* C24: 0 was returned for a user the dict does not hold, and the dict, which
\* holds another user's records, still does not hold that user
C24_Witness ==
    /\ answer.fn = "get_daily_cost" /\ answer.args[2] = "nobody"
    /\ answer.value = 0
    /\ trackers[1].state = "alive"
    /\ DOMAIN trackers[1].costs = {"default"}
    /\ Len(adds) = 2

\* C24: the total of two records was returned for their user and date
C24_WitnessTotal ==
    /\ answer.fn = "get_daily_cost" /\ answer.args[2] = "default"
    /\ answer.value = 450
    /\ CallsFor(1, "default", answer.args[3]) = 2

-----------------------------------------------------------------------------
(* SpecHonest: one capped session and a service whose reported usage is     *)
(* never above what was estimated: every message has at least one token and *)
(* max_tokens is 1, and the service reports at most one prompt token and at *)
(* most one completion token.                                               *)

HonestConfigs == {CfgCapped, CfgTight}
HonestLines == { <<"a">>, <<"h","i">>, <<"/","c","o","s","t">>,
                 <<"e","x","i","t">> }
HonestService == {ServiceError, Usage(0, 0), Usage(1, 0), Usage(1, 1)}

NextHonest ==
    \/ Construct(HonestConfigs)
    \/ Start
    \/ LoopInput(HonestLines, HonestService, {"ok"})
    \/ LoopEOF
    \/ LoopInterrupt
    \/ DirectMessage(HonestLines, HonestService, {"ok"})

SpecHonest == Init /\ [][NextHonest]_vars

\* C28: in a session with session_budget > 0 whose service never reports
\* more prompt tokens than count_tokens(message) nor more completion tokens
\* than max_tokens, session_cost is never above session_budget, after any
\* messages, commands and failed calls (every message has at least one
\* token, so one prompt token is never more than count_tokens(message)).
C28_SpendStaysUnderCap ==
    (alive /\ config.session_budget > 0)
        => /\ session_cost <= config.session_budget
           /\ \A n \in DOMAIN calls :
                 /\ calls[n].prompt_tokens <= 1
                 /\ calls[n].completion_tokens <= config.max_tokens

\* C28: two messages were answered at the full estimate, the session's cost
\* is exactly the cap, and a command followed
C28_Witness ==
    /\ config = CfgCapped
    /\ session_cost = config.session_budget
    /\ message_count = 2 /\ Len(calls) = 2
    /\ last.op = "cost"

\* C28: a message was answered after a call that failed, under the cap
C28_WitnessAfterFailure ==
    /\ config = CfgTight
    /\ Len(calls) = 2 /\ ~calls[1].ok /\ calls[2].ok
    /\ session_cost = 200

-----------------------------------------------------------------------------
(* SpecCost: calculate_cost called with every priced model, some unpriced   *)
(* identifiers and token counts from 0 to 100000.                           *)

NextCost == CalculateCost

SpecCost == Init /\ [][NextCost]_vars

C22_WitnessZero ==
    /\ answer.fn = "calculate_cost"
    /\ answer.args = <<"gpt-4-turbo", 0, 0>>
    /\ answer.res = "ok" /\ answer.value = 0

\* C23: calculate_cost raises for every model identifier that is not in
\* MODEL_PRICING, whatever the token counts, and the call changes nothing
\* else.
C23_UnpricedModelRaises ==
    [][ (answer'.fn = "calculate_cost" /\ ~KnownModel(answer'.args[1]))
            => /\ answer'.res = "raised"
               /\ UNCHANGED <<file, today, trackers, adds, sessionVars>> ]_vars

\* C23: the call raised for an unpriced model and no tokens
C23_Witness ==
    /\ answer.fn = "calculate_cost"
    /\ answer.args = <<"gpt-4", 0, 0>>
    /\ answer.res = "raised"

\* C17 as claimed: a chat message handled when the configured model has no
\* pricing entry leaves the loop of start() reading input, if it was, and
\* running, session_cost and message_count as they were.
C17_UnknownModelKeepsSession ==
    [][ (Handled("chat") /\ ~KnownModel(config.model))
            => /\ inLoop' = inLoop
               /\ running' = running
               /\ session_cost' = session_cost
               /\ message_count' = message_count ]_vars

====
